---- MODULE Spec2Model ----
(***************************************************************************)
(* Model of the chat backend (backend/server.js, kept in                   *)
(* src/unnamed/part_000 as three successive revisions of the same file)    *)
(* and of the history cleaner sanitizeHistory it calls.                    *)
(*                                                                         *)
(* JavaScript values are records tagged by the field t:                    *)
(*   undefined, null, string (chars: the string's pieces in order; a       *)
(*   string the code looks into is cut into single characters), number     *)
(*   (n), object (one field per property), array (items).                  *)
(***************************************************************************)
EXTENDS Integers, Sequences, FiniteSets, TLC

\* ------------------------------------------------------------- bounds
\* longest history (number of turns) the normalizer is applied to
MaxHistLen == 3
\* longest history (number of turns) in the body of a chat request
MaxReqHistLen == 2
\* how many /api/chat requests the browser client posts at most
MaxSends == 3

\* ------------------------------------------------------- JS values
Undefined == [t |-> "undefined"]
Null == [t |-> "null"]
Str(cs) == [t |-> "string", chars |-> cs]
Num(k) == [t |-> "number", n |-> k]
Arr(xs) == [t |-> "array", items |-> xs]

IsNullish(v) == v.t \in {"undefined", "null"}

\* ToBoolean(v): "", 0, null and undefined are falsy
Truthy(v) ==
    CASE v.t = "string" -> v.chars # <<>>
      [] v.t = "number" -> v.n # 0
      [] v.t \in {"undefined", "null"} -> FALSE
      [] OTHER -> TRUE

\* property read obj.f on a non-nullish value: a missing property is undefined
Get(obj, f) == IF f \in DOMAIN obj THEN obj[f] ELSE Undefined

Whitespace == {" ", "\t", "\n"}

RECURSIVE TrimStart(_)
TrimStart(cs) ==
    IF cs # <<>> /\ Head(cs) \in Whitespace THEN TrimStart(Tail(cs)) ELSE cs

RECURSIVE TrimEnd(_)
TrimEnd(cs) ==
    IF cs # <<>> /\ cs[Len(cs)] \in Whitespace
    THEN TrimEnd(SubSeq(cs, 1, Len(cs) - 1))
    ELSE cs

\* String.prototype.trim on the characters of a string
Trim(cs) == TrimEnd(TrimStart(cs))

sUser == Str(<<"u", "s", "e", "r">>)
sModel == Str(<<"m", "o", "d", "e", "l">>)
sAssistant == Str(<<"a", "s", "s", "i", "s", "t", "a", "n", "t">>)
sSystem == Str(<<"s", "y", "s", "t", "e", "m">>)
sUserCap == Str(<<"U", "s", "e", "r">>)

\* --------------------------------------------------- sanitizeHistory
\* the role a mutated map callback would give: the source role kept as it is
MapRole_keep(role) == role

\* msg.role === "user" ? "user" : "model"
MapRole(role) == IF role = sUser THEN sUser ELSE sModel

\* the callback of history.map: { role: ..., parts: [{ text: msg.content }] }
MapTurn(msg) ==
    [t |-> "object",
     role |-> MapRole(Get(msg, "role")),
     parts |-> Arr(<<[t |-> "object", text |-> Get(msg, "content")]>>)]

PartText(m) == Get(m.parts.items[1], "text")

\* a mutated filter callback: keeps every truthy text, blank or not
FilterTest_noTrim(m) ==
    LET text == PartText(m) IN
    IF ~Truthy(text) THEN "drop"
    ELSE IF text.t # "string" THEN "throw"
    ELSE "keep"

\* the callback of formatted.filter: text && text.trim() !== "".
\* A truthy text that is no string has no trim method: the call throws.
FilterTest(m) ==
    LET text == PartText(m) IN
    IF ~Truthy(text) THEN "drop"
    ELSE IF text.t # "string" THEN "throw"
    ELSE IF Trim(text.chars) # <<>> THEN "keep" ELSE "drop"

\* a mutated filter that removes nothing
Kept_all(m) == FilterTest(m) # "throw"

Kept(m) == FilterTest(m) = "keep"

\* mutated loops: no shift at all, and a single shift (if instead of while)
DropLeading_none(f) == f
DropLeading_once(f) ==
    IF Len(f) > 0 /\ f[1].role # sUser THEN Tail(f) ELSE f

\* while (formatted.length > 0 && formatted[0].role !== "user") formatted.shift()
RECURSIVE DropLeading(_)
DropLeading(f) ==
    IF Len(f) > 0 /\ f[1].role # sUser THEN DropLeading(Tail(f)) ELSE f

\* a formatted element without its ghost field src
Strip(m) == [t |-> m.t, role |-> m.role, parts |-> m.parts]

\* a mutated cleaner that drops the leading turns before it filters
sanitizeHistory_shiftFirst(history) ==
    IF history.t # "array" \/ Len(history.items) = 0
    THEN [threw |-> FALSE, value |-> <<>>, src |-> <<>>]
    ELSE IF \E i \in 1..Len(history.items) : IsNullish(history.items[i])
    THEN [threw |-> TRUE, value |-> <<>>, src |-> <<>>]
    ELSE
      LET formatted == [i \in 1..Len(history.items) |->
                          MapTurn(history.items[i]) @@ [src |-> i]]
      IN  IF \E i \in 1..Len(formatted) : FilterTest(formatted[i]) = "throw"
          THEN [threw |-> TRUE, value |-> <<>>, src |-> <<>>]
          ELSE
            LET kept == SelectSeq(DropLeading(formatted), Kept)
            IN  [threw |-> FALSE,
                 value |-> [i \in 1..Len(kept) |-> Strip(kept[i])],
                 src |-> [i \in 1..Len(kept) |-> kept[i].src]]

\* sanitizeHistory(history): threw = a TypeError left the function;
\* value = the returned array's elements; src = for each returned element the
\* (1-based) position of the turn it was made from (a ghost, not in the code).
sanitizeHistory(history) ==
    IF history.t # "array" \/ Len(history.items) = 0
    THEN [threw |-> FALSE, value |-> <<>>, src |-> <<>>]
    ELSE IF \E i \in 1..Len(history.items) : IsNullish(history.items[i])
    THEN [threw |-> TRUE, value |-> <<>>, src |-> <<>>]
    ELSE
      LET formatted == [i \in 1..Len(history.items) |->
                          MapTurn(history.items[i]) @@ [src |-> i]]
      IN  IF \E i \in 1..Len(formatted) : FilterTest(formatted[i]) = "throw"
          THEN [threw |-> TRUE, value |-> <<>>, src |-> <<>>]
          ELSE
            LET kept == DropLeading(SelectSeq(formatted, Kept))
            IN  [threw |-> FALSE,
                 value |-> [i \in 1..Len(kept) |-> Strip(kept[i])],
                 src |-> [i \in 1..Len(kept) |-> kept[i].src]]

\* ------------------------------------------------ strings of the server
UpperCase == <<"A", "B", "C", "D", "E", "F", "G", "H", "I", "J", "K", "L", "M",
               "N", "O", "P", "Q", "R", "S", "T", "U", "V", "W", "X", "Y", "Z">>
LowerCase == <<"a", "b", "c", "d", "e", "f", "g", "h", "i", "j", "k", "l", "m",
               "n", "o", "p", "q", "r", "s", "t", "u", "v", "w", "x", "y", "z">>

LowerChar(c) ==
    IF \E i \in 1..26 : UpperCase[i] = c
    THEN LowerCase[CHOOSE i \in 1..26 : UpperCase[i] = c]
    ELSE c

\* a mutated toLowerCase that leaves the string as it is
toLowerCase_asIs(cs) == cs

\* String.prototype.toLowerCase
toLowerCase(cs) == [i \in 1..Len(cs) |-> LowerChar(cs[i])]

\* String.prototype.includes
includes(cs, sub) ==
    \E i \in 0..(Len(cs) - Len(sub)) : SubSeq(cs, i + 1, i + Len(sub)) = sub

kGemini == <<"g", "e", "m", "i", "n", "i">>
kFlash == <<"f", "l", "a", "s", "h">>
kPro == <<"p", "r", "o">>

\* the three revisions of backend/server.js held in src/unnamed/part_000
Builds == {1, 2, 3}

MODEL_FLASH(b) == IF b = 3 THEN "gemini-2.0-flash-exp" ELSE "gemini-2.5-flash"
MODEL_PRO(b) == IF b = 3 THEN "gemini-2.0-pro-exp-02-05" ELSE "gemini-2.5-pro"
MODEL_GROQ == "llama-3.1-8b-instant"
SYSTEM_INSTRUCTION_INDRESH == Str(<<"You are Indresh 2.0, ...">>)

\* the text of the two fixed replies (the first begins with a cross mark in
\* the source) and of the reply the catch block builds from error.message
KeyMissingContent == Str(<<"Error: AI Key Missing">>)
ErrorFromApi == Str(<<"Error from API">>)
CatchContent(message) == Str(<<"Error: ", message, ".">>)

\* (process.env.X || "").trim()
EnvKey(env) == Str(Trim(IF Truthy(env) THEN env.chars ELSE <<>>))

\* GEMINI_KEY ? new GoogleGenerativeAI(GEMINI_KEY) : null
MakeGenAI(key) == IF Truthy(key) THEN [t |-> "object", apiKey |-> key] ELSE Null

\* (model || "gemini"): the value toLowerCase is called on
HintOrDefault(model) == IF Truthy(model) THEN model ELSE Str(kGemini)

\* requestedType.includes("gemini") || .includes("flash") || .includes("pro")
IsGeminiMode(requestedType) ==
    \/ includes(requestedType, kGemini)
    \/ includes(requestedType, kFlash)
    \/ includes(requestedType, kPro)

\* targetModelName: revisions 1 and 2 ask for "flash" first, revision 3 for "pro"
TargetModelName(b, requestedType) ==
    IF b = 3
    THEN IF includes(requestedType, kPro) THEN MODEL_PRO(b) ELSE MODEL_FLASH(b)
    ELSE IF includes(requestedType, kFlash) THEN MODEL_FLASH(b) ELSE MODEL_PRO(b)

\* the name inside the via label: revision 2 removes the prefix "gemini-"
DisplayModelName(b, name) ==
    IF b # 2 THEN name
    ELSE IF name = "gemini-2.5-flash" THEN "2.5-flash" ELSE "2.5-pro"

GeminiVia(b, name) == Str(<<"Indresh (", DisplayModelName(b, name), ")">>)
GroqVia == Str(<<"Indresh (Turbo)">>)

\* the callback of history.map on the secondary path
GroqTurn(msg) ==
    [t |-> "object",
     role |-> IF Get(msg, "role") = sUser THEN sUser ELSE sAssistant,
     content |-> Get(msg, "content")]

\* a mutated message list, built from the cleaned history instead of the raw one
GroqMessages_cleaned(items, cleaned, message) ==
    <<[t |-> "object", role |-> sSystem, content |-> SYSTEM_INSTRUCTION_INDRESH]>>
        \o [i \in 1..Len(cleaned) |->
              [t |-> "object",
               role |-> IF cleaned[i].role = sUser THEN sUser ELSE sAssistant,
               content |-> PartText(cleaned[i])]]
        \o <<[t |-> "object", role |-> sUser, content |-> message]>>

\* groqMessages: [system persona, ...history.map(...), new user message];
\* items = the raw history's elements, cleaned = geminiHistory (not used)
GroqMessages(items, cleaned, message) ==
    <<[t |-> "object", role |-> sSystem, content |-> SYSTEM_INSTRUCTION_INDRESH]>>
        \o [i \in 1..Len(items) |-> GroqTurn(items[i])]
        \o <<[t |-> "object", role |-> sUser, content |-> message]>>

\* v?.f and v?.[0]
OptGet(v, f) == IF IsNullish(v) THEN Undefined ELSE Get(v, f)
OptFirst(v) ==
    IF IsNullish(v) \/ v.t # "array" \/ Len(v.items) = 0 THEN Undefined
    ELSE v.items[1]

\* a mutated extraction without the fallback string
GroqReply_noFallback(data) ==
    OptGet(OptGet(OptFirst(Get(data, "choices")), "message"), "content")

\* data.choices?.[0]?.message?.content || "Error from API" (data is not nullish)
GroqReply(data) ==
    LET content == OptGet(OptGet(OptFirst(Get(data, "choices")), "message"), "content")
    IN  IF Truthy(content) THEN content ELSE ErrorFromApi

\* ----------------------------------------------------- input domains
RECURSIVE SeqsUpTo(_, _)
SeqsUpTo(S, n) ==
    IF n = 0 THEN {<<>>}
    ELSE LET shorter == SeqsUpTo(S, n - 1)
         IN  shorter \cup {Append(s, x) : s \in {q \in shorter : Len(q) = n - 1}, x \in S}

sEmpty == Str(<<>>)
sBlank == Str(<<" ">>)
sA == Str(<<"a">>)
sPaddedA == Str(<<" ", "a", " ">>)

\* contents a client can put in a turn: the empty string, a blank one, text,
\* text with whitespace around it, no content at all, and a number
Contents == {sEmpty, sBlank, sA, sPaddedA, Undefined, Num(5)}

Roles == {sUser, sAssistant, sUserCap}

Turn(r, c) == [t |-> "object", role |-> r, content |-> c]

\* the elements a history array can hold: turns, and null
Elements == {Turn(r, c) : r \in Roles, c \in Contents} \cup {Null}

\* a history value: an array of elements, or no array at all (absent, null,
\* a string, an object)
Histories ==
    {Arr(xs) : xs \in SeqsUpTo(Elements, MaxHistLen)}
        \cup {Undefined, Null, Str(<<"a">>), [t |-> "object"]}

\* model hints a client can send: strings, none, and a number
hGeminiFlash == Str(<<"g", "e", "m", "i", "n", "i", "-", "f", "l", "a", "s", "h">>)
hFlashTest == Str(<<"F", "L", "A", "S", "H", "-", "t", "e", "s", "t">>)
hGeminiPro == Str(<<"g", "e", "m", "i", "n", "i", "-", "p", "r", "o">>)
hGemini == Str(<<"g", "e", "m", "i", "n", "i">>)
hGeminiCap == Str(<<"G", "e", "m", "i", "n", "i">>)
hFlashPro == Str(<<"f", "l", "a", "s", "h", "-", "p", "r", "o">>)
hProCap == Str(<<"P", "R", "O">>)
hGroq == Str(<<"g", "r", "o", "q">>)
hGroqCap == Str(<<"G", "r", "o", "q">>)
\* the browser client's default (src/public/client.js line 73)
hDeepseek ==
    Str(<<"d", "e", "e", "p", "s", "e", "e", "k", "_", "r", "1", "_", "0", "5", "2", "8">>)

StringHints ==
    {hGeminiFlash, hFlashTest, hGeminiPro, hGemini, hGeminiCap, hFlashPro,
     hProCap, hGroq, hGroqCap, hDeepseek, sEmpty}
Hints == StringHints \cup {Undefined, Num(5)}

sHello == Str(<<"hello">>)
Messages == {sHello}

\* the elements of a request's history
ReqElements ==
    {Turn(sUser, sA), Turn(sAssistant, sA), Turn(sUser, sBlank),
     Turn(sAssistant, Undefined), Turn(sUser, Num(5)), Null}

ReqHistories ==
    {Arr(xs) : xs \in SeqsUpTo(ReqElements, MaxReqHistLen)}
        \cup {Undefined, Str(<<"a">>)}

\* req.body; a field the client left out reads as undefined
Body(message, history, model) ==
    [t |-> "object", message |-> message, history |-> history, model |-> model]

Bodies == {Body(m, h, x) : m \in Messages, h \in ReqHistories, x \in Hints}

\* the bodies of the two-request specification: every string hint, short histories
PairHistories == {Undefined, Arr(<<>>), Arr(<<Turn(sAssistant, sA), Turn(sUser, sA)>>)}
PairBodies == {Body(m, h, x) : m \in Messages, h \in PairHistories, x \in StringHints}

\* what process.env can hold for a key: nothing, blanks, a key
EnvValues == {Undefined, sBlank, Str(<<"k">>)}

\* what the providers answer
Texts == {Str(<<"answer">>)}
Choice(content) ==
    [t |-> "object", message |-> [t |-> "object", content |-> content]]
GroqData ==
    {[t |-> "object", choices |-> Arr(<<Choice(x)>>)] : x \in Texts \cup {sEmpty, Undefined}}
        \cup {[t |-> "object", choices |-> Arr(<<>>)],
              [t |-> "object", error |-> [t |-> "object"]],
              Null}

Slots == {1}
PairSlots == {1, 2}

\* ------------------------------------------------------------- state
VARIABLES
    build,       \* which revision of server.js runs
    GEMINI_KEY,  \* the primary provider's credential, "" when absent
    GROQ_KEY,    \* the secondary provider's credential, "" when absent
    genAI,       \* the primary provider's client, null without GEMINI_KEY
    pc,          \* per handler activation: where it stands
    req,         \* per activation: req.body
    loc,         \* per activation: its locals
    calls,       \* per activation: the outbound calls it has made, in order
    sent,        \* per activation: the replies it has passed to res.json, in order
    nh,          \* normalizer harness: the history value given to sanitizeHistory
    nstage,      \* "input", "once" (sanitizeHistory applied), "twice" (applied again)
    nout,        \* the result of sanitizeHistory(nh)
    nout2,       \* the result of sanitizeHistory on the array nout returned
    nback,       \* the result of sanitizeHistory on nout's elements rewritten as turns
    pending,     \* client.js: a /api/chat request of sendMessage is under way
    disabled,    \* client.js: sendBtn.disabled
    value,       \* client.js: input.value
    messagesEl,  \* client.js: the messages addMessage appended, in order
    apiStatus,   \* client.js: the text setStatus showed last
    fetches,     \* client.js: the bodies posted to /api/chat, in order
    act,         \* client.js: per sendMessage activation that posted: where it stands
    lastCall     \* client.js: how the latest sendMessage call went (a ghost)

svars == <<build, GEMINI_KEY, GROQ_KEY, genAI>>
hvars == <<pc, req, loc, calls, sent>>
nvars == <<nh, nstage, nout, nout2, nback>>
cvars == <<pending, disabled, value, messagesEl, apiStatus, fetches, act, lastCall>>
vars == <<svars, hvars, nvars, cvars>>

NoResult == [threw |-> FALSE, value |-> <<>>, src |-> <<>>]
NoBody == [t |-> "undefined"]
\* text, data and error are what the provider answered: the text of the primary
\* provider's response, the parsed body of the secondary provider's response,
\* the message of the error that reached the catch block
NoLocals ==
    [requestedType |-> <<>>, geminiHistory |-> <<>>, branch |-> "none",
     targetModelName |-> "none", text |-> Undefined, data |-> Undefined,
     error |-> "none"]

\* ------------------------------------------------- the server's start
ServerInit ==
    /\ build \in Builds
    /\ \E e1 \in EnvValues, e2 \in EnvValues :
          /\ GEMINI_KEY = EnvKey(e1)
          /\ GROQ_KEY = EnvKey(e2)
          /\ genAI = MakeGenAI(EnvKey(e1))

HandlersInit(S) ==
    /\ pc = [s \in S |-> "idle"]
    /\ req = [s \in S |-> NoBody]
    /\ loc = [s \in S |-> NoLocals]
    /\ calls = [s \in S |-> <<>>]
    /\ sent = [s \in S |-> <<>>]

HarnessIdle ==
    /\ nh = Undefined
    /\ nstage = "input"
    /\ nout = NoResult
    /\ nout2 = NoResult
    /\ nback = NoResult

\* the page as the script leaves it when it has loaded: lines 62 and 204
ClientInit ==
    /\ pending = FALSE
    /\ disabled = FALSE
    /\ value = sEmpty
    /\ messagesEl = <<>>
    /\ apiStatus = "Ready"
    /\ fetches = <<>>
    /\ act = [n \in 1..MaxSends |-> "unused"]
    /\ lastCall = "none"

Init == ServerInit /\ HandlersInit(Slots) /\ HarnessIdle /\ ClientInit

InitPair == ServerInit /\ HandlersInit(PairSlots) /\ HarnessIdle /\ ClientInit

\* --------------------------------------------------- app.post("/api/chat")
Reply(content) == [role |-> "assistant", content |-> content]
ReplyVia(content, via) == [role |-> "assistant", content |-> content, via |-> via]

GeminiCall(name, history, message) ==
    [provider |-> "gemini", model |-> name,
     systemInstruction |-> SYSTEM_INSTRUCTION_INDRESH,
     history |-> history, message |-> message]

GroqCall(key, messages) ==
    [provider |-> "groq", model |-> MODEL_GROQ, authorization |-> key,
     messages |-> messages]

\* a mutated catch block that, after answering, tries the other provider
CatchBlock_retry(s, message) ==
    /\ sent' = [sent EXCEPT ![s] = Append(@, Reply(CatchContent(message)))]
    /\ calls' = [calls EXCEPT ![s] =
                   Append(@, GroqCall(GROQ_KEY,
                                      GroqMessages(<<>>, <<>>, Get(req[s], "message"))))]
    /\ pc' = [pc EXCEPT ![s] = "done"]

\* a mutated catch block whose reply carries a via label
CatchBlock_withVia(s, message) ==
    /\ sent' = [sent EXCEPT ![s] = Append(@, ReplyVia(CatchContent(message), GroqVia))]
    /\ calls' = calls
    /\ pc' = [pc EXCEPT ![s] = "done"]

\* catch (error): one reply built from error.message
CatchBlock(s, message) ==
    /\ sent' = [sent EXCEPT ![s] = Append(@, Reply(CatchContent(message)))]
    /\ calls' = calls
    /\ pc' = [pc EXCEPT ![s] = "done"]

\* the exception leaves the async handler: nothing is sent
Escapes(s) ==
    /\ pc' = [pc EXCEPT ![s] = "crashed"]
    /\ UNCHANGED <<calls, sent>>

\* the handler from its first line to its first await, return or throw
HandleChat(s, body) ==
    LET message == Get(body, "message")
        history == Get(body, "history")
        model == Get(body, "model")
        hint == HintOrDefault(model)
    IN
    /\ req' = [req EXCEPT ![s] = body]
    /\ IF hint.t # "string"
       THEN \* (model || "gemini").toLowerCase is not a function: line 73, before try
            /\ loc' = [loc EXCEPT ![s] = NoLocals]
            /\ Escapes(s)
       ELSE
       LET requestedType == toLowerCase(hint.chars)
           cleaned == sanitizeHistory(history)
       IN
       IF cleaned.threw
       THEN \* sanitizeHistory throws: line 75, before try
            /\ loc' = [loc EXCEPT ![s] = [NoLocals EXCEPT !.requestedType = requestedType]]
            /\ Escapes(s)
       ELSE
       LET geminiHistory == cleaned.value
           locals == [NoLocals EXCEPT !.requestedType = requestedType,
                                      !.geminiHistory = geminiHistory]
       IN
       IF IsGeminiMode(requestedType)
       THEN IF genAI = Null
            THEN /\ loc' = [loc EXCEPT ![s] = [locals EXCEPT !.branch = "gemini"]]
                 /\ sent' = [sent EXCEPT ![s] = Append(@, Reply(KeyMissingContent))]
                 /\ pc' = [pc EXCEPT ![s] = "done"]
                 /\ calls' = calls
            ELSE LET name == TargetModelName(build, requestedType) IN
                 /\ loc' = [loc EXCEPT ![s] = [locals EXCEPT !.branch = "gemini",
                                                             !.targetModelName = name]]
                 /\ calls' = [calls EXCEPT ![s] =
                                Append(@, GeminiCall(name, geminiHistory, message))]
                 /\ pc' = [pc EXCEPT ![s] = "awaitSendMessage"]
                 /\ sent' = sent
       ELSE /\ loc' = [loc EXCEPT ![s] = [locals EXCEPT !.branch = "groq"]]
            /\ IF ~Truthy(GROQ_KEY)
               THEN /\ sent' = [sent EXCEPT ![s] = Append(@, Reply(KeyMissingContent))]
                    /\ pc' = [pc EXCEPT ![s] = "done"]
                    /\ calls' = calls
               ELSE IF IsNullish(history)
               THEN \* history.map on undefined or null throws: caught
                    CatchBlock(s, "Cannot read properties of undefined (reading 'map')")
               ELSE IF history.t # "array"
               THEN \* a string has no map method: the call throws, caught
                    CatchBlock(s, "history.map is not a function")
               ELSE /\ calls' = [calls EXCEPT ![s] =
                                   Append(@, GroqCall(GROQ_KEY,
                                       GroqMessages(history.items, geminiHistory, message)))]
                    /\ pc' = [pc EXCEPT ![s] = "awaitFetch"]
                    /\ sent' = sent

\* a request arrives
Receive(s) ==
    /\ pc[s] = "idle"
    /\ \E body \in Bodies : HandleChat(s, body)
    /\ UNCHANGED <<cvars, svars, nvars>>

ReceivePair(s) ==
    /\ pc[s] = "idle"
    /\ \E body \in PairBodies : HandleChat(s, body)
    /\ UNCHANGED <<cvars, svars, nvars>>

\* await chat.sendMessage(message) rejects (network failure, API error)
SendMessageRejects(s) ==
    /\ pc[s] = "awaitSendMessage"
    /\ CatchBlock(s, "[GoogleGenerativeAI Error]: fetch failed")
    /\ loc' = [loc EXCEPT ![s].error = "[GoogleGenerativeAI Error]: fetch failed"]
    /\ UNCHANGED <<cvars, svars, nvars, req>>

\* await chat.sendMessage(message) resolves; response.text() gives the text or
\* throws on a response without usable candidates
SendMessageResolves(s) ==
    /\ pc[s] = "awaitSendMessage"
    /\ \/ \E text \in Texts :
            /\ sent' = [sent EXCEPT ![s] =
                          Append(@, ReplyVia(text, GeminiVia(build, loc[s].targetModelName)))]
            /\ pc' = [pc EXCEPT ![s] = "done"]
            /\ calls' = calls
            /\ loc' = [loc EXCEPT ![s].text = text]
       \/ /\ CatchBlock(s, "[GoogleGenerativeAI Error]: response was blocked")
          /\ loc' = [loc EXCEPT ![s].error =
                        "[GoogleGenerativeAI Error]: response was blocked"]
    /\ UNCHANGED <<cvars, svars, nvars, req>>

\* await fetch(...) rejects
FetchRejects(s) ==
    /\ pc[s] = "awaitFetch"
    /\ CatchBlock(s, "fetch failed")
    /\ loc' = [loc EXCEPT ![s].error = "fetch failed"]
    /\ UNCHANGED <<cvars, svars, nvars, req>>

\* await fetch(...) resolves with a response
FetchResolves(s) ==
    /\ pc[s] = "awaitFetch"
    /\ pc' = [pc EXCEPT ![s] = "awaitJson"]
    /\ UNCHANGED <<cvars, svars, nvars, req, loc, calls, sent>>

\* await response.json() rejects: the body is no JSON
JsonRejects(s) ==
    /\ pc[s] = "awaitJson"
    /\ CatchBlock(s, "Unexpected token < in JSON at position 0")
    /\ loc' = [loc EXCEPT ![s].error = "Unexpected token < in JSON at position 0"]
    /\ UNCHANGED <<cvars, svars, nvars, req>>

\* await response.json() resolves with data
JsonResolves(s) ==
    /\ pc[s] = "awaitJson"
    /\ \E data \in GroqData :
          IF IsNullish(data)
          THEN /\ CatchBlock(s, "Cannot read properties of null (reading 'choices')")
               /\ loc' = [loc EXCEPT ![s].data = data,
                                     ![s].error =
                                        "Cannot read properties of null (reading 'choices')"]
          ELSE /\ sent' = [sent EXCEPT ![s] = Append(@, ReplyVia(GroqReply(data), GroqVia))]
               /\ pc' = [pc EXCEPT ![s] = "done"]
               /\ calls' = calls
               /\ loc' = [loc EXCEPT ![s].data = data]
    /\ UNCHANGED <<cvars, svars, nvars, req>>

\* a mutated end of an activation that clears a store shared by all of them
Complete_all(s) ==
    /\ pc[s] = "done"
    /\ pc' = [u \in DOMAIN pc |-> "idle"]
    /\ req' = [u \in DOMAIN pc |-> NoBody]
    /\ loc' = [u \in DOMAIN pc |-> NoLocals]
    /\ calls' = [u \in DOMAIN pc |-> <<>>]
    /\ sent' = [u \in DOMAIN pc |-> <<>>]
    /\ UNCHANGED <<cvars, svars, nvars>>

\* the activation is over: its body, locals and records are gone
Complete(s) ==
    /\ pc[s] = "done"
    /\ pc' = [pc EXCEPT ![s] = "idle"]
    /\ req' = [req EXCEPT ![s] = NoBody]
    /\ loc' = [loc EXCEPT ![s] = NoLocals]
    /\ calls' = [calls EXCEPT ![s] = <<>>]
    /\ sent' = [sent EXCEPT ![s] = <<>>]
    /\ UNCHANGED <<cvars, svars, nvars>>

Next ==
    \/ \E s \in DOMAIN pc : Receive(s)
    \/ \E s \in DOMAIN pc : SendMessageRejects(s)
    \/ \E s \in DOMAIN pc : SendMessageResolves(s)
    \/ \E s \in DOMAIN pc : FetchRejects(s)
    \/ \E s \in DOMAIN pc : FetchResolves(s)
    \/ \E s \in DOMAIN pc : JsonRejects(s)
    \/ \E s \in DOMAIN pc : JsonResolves(s)
    \/ \E s \in DOMAIN pc : Complete(s)

NextPair ==
    \/ \E s \in DOMAIN pc : ReceivePair(s)
    \/ \E s \in DOMAIN pc : SendMessageRejects(s)
    \/ \E s \in DOMAIN pc : SendMessageResolves(s)
    \/ \E s \in DOMAIN pc : FetchRejects(s)
    \/ \E s \in DOMAIN pc : FetchResolves(s)
    \/ \E s \in DOMAIN pc : JsonRejects(s)
    \/ \E s \in DOMAIN pc : JsonResolves(s)
    \/ \E s \in DOMAIN pc : Complete(s)

Spec == Init /\ [][Next]_vars

SpecPair == InitPair /\ [][NextPair]_vars

\* ------------------------------------------------- normalizer harness
\* an element of sanitizeHistory's result, written back as a client turn
AsTurn(m) == Turn(m.role, PartText(m))
AsTurns(ms) == [i \in 1..Len(ms) |-> AsTurn(ms[i])]

InitNorm ==
    /\ build = 1
    /\ GEMINI_KEY = sEmpty
    /\ GROQ_KEY = sEmpty
    /\ genAI = Null
    /\ HandlersInit(Slots)
    /\ nh \in Histories
    /\ nstage = "input"
    /\ nout = NoResult
    /\ nout2 = NoResult
    /\ nback = NoResult
    /\ ClientInit

\* one call sanitizeHistory(nh)
Normalize ==
    /\ nstage = "input"
    /\ nout' = sanitizeHistory(nh)
    /\ nstage' = "once"
    /\ UNCHANGED <<cvars, svars, hvars, nh, nout2, nback>>

\* a second call, on what the first returned
Renormalize ==
    /\ nstage = "once"
    /\ ~nout.threw
    /\ nout2' = sanitizeHistory(Arr(nout.value))
    /\ nback' = sanitizeHistory(Arr(AsTurns(nout.value)))
    /\ nstage' = "twice"
    /\ UNCHANGED <<cvars, svars, hvars, nh, nout>>

NextNorm == Normalize \/ Renormalize

SpecNorm == InitNorm /\ [][NextNorm]_vars

\* ------------------------------------------- public/client.js: sendMessage
\* what the user can have typed into #user-input
InputTexts == {sEmpty, sBlank, sA, sPaddedA}

\* modelSelect.value: none selected (or no #model-select), or an option
ModelSelectValues == {sEmpty, hGeminiFlash}

\* addMessage(sender, text, isUser): the header shows 'You' for a user message
Message(sender, text, isUser) ==
    [username |-> IF isUser THEN "You" ELSE sender, text |-> text, isUser |-> isUser]

\* the body of the POST: JSON.stringify({ message: text, conversation_id, model })
ChatBody(text, selected) ==
    [message |-> text, conversation_id |-> "diag",
     model |-> IF Truthy(selected) THEN selected ELSE hDeepseek]

Outstanding == {n \in DOMAIN act : act[n] \in {"awaitFetch", "awaitText", "awaitJson"}}
Unused == {n \in DOMAIN act : act[n] = "unused"}

\* a mutated sendMessage without the test of pending on its first line
sendMessage_noGuard(text) ==
    LET trimmed == Str(Trim(text.chars)) IN
    IF ~Truthy(trimmed)
    THEN /\ lastCall' = "blank"
         /\ UNCHANGED <<pending, disabled, value, messagesEl, apiStatus, fetches, act>>
    ELSE /\ Unused # {}
         /\ messagesEl' = Append(messagesEl, Message("You", trimmed, TRUE))
         /\ value' = sEmpty
         /\ apiStatus' = "Sending..."
         /\ pending' = TRUE
         /\ disabled' = TRUE
         /\ \E selected \in ModelSelectValues :
               fetches' = Append(fetches, ChatBody(trimmed, selected))
         /\ LET n == CHOOSE k \in Unused : \A j \in Unused : k <= j
            IN  act' = [act EXCEPT ![n] = "awaitFetch"]
         /\ lastCall' = "posted"

\* sendMessage(text) from its first line to await fetch(...), or to its return
sendMessage(text) ==
    IF pending
    THEN /\ lastCall' = "pending"
         /\ UNCHANGED <<pending, disabled, value, messagesEl, apiStatus, fetches, act>>
    ELSE
    LET trimmed == Str(Trim(text.chars)) IN
    IF ~Truthy(trimmed)
    THEN /\ lastCall' = "blank"
         /\ UNCHANGED <<pending, disabled, value, messagesEl, apiStatus, fetches, act>>
    ELSE /\ Unused # {}
         /\ messagesEl' = Append(messagesEl, Message("You", trimmed, TRUE))
         /\ value' = sEmpty
         /\ apiStatus' = "Sending..."
         /\ pending' = TRUE
         /\ disabled' = TRUE
         /\ \E selected \in ModelSelectValues :
               fetches' = Append(fetches, ChatBody(trimmed, selected))
         /\ LET n == CHOOSE k \in Unused : \A j \in Unused : k <= j
            IN  act' = [act EXCEPT ![n] = "awaitFetch"]
         /\ lastCall' = "posted"

\* the user edits #user-input
TypeText ==
    /\ \E text \in InputTexts \ {value} : value' = text
    /\ UNCHANGED <<svars, hvars, nvars>>
    /\ UNCHANGED <<pending, disabled, messagesEl, apiStatus, fetches, act, lastCall>>

\* the click handler of #send-button; a disabled button gets no click event
ClickSend ==
    /\ ~disabled
    /\ sendMessage(value)
    /\ UNCHANGED <<svars, hvars, nvars>>

\* the keydown handler of #user-input for Enter without Shift
PressEnter ==
    /\ sendMessage(value)
    /\ UNCHANGED <<svars, hvars, nvars>>

\* the end of an activation: a message of 'Indresh 2.0', a status, then the
\* finally block
Settle(n, text, status) ==
    /\ messagesEl' = Append(messagesEl, Message("Indresh 2.0", text, FALSE))
    /\ apiStatus' = status
    /\ pending' = FALSE
    /\ disabled' = FALSE
    /\ act' = [act EXCEPT ![n] = "settled"]
    /\ UNCHANGED <<value, fetches, lastCall>>
    /\ UNCHANGED <<svars, hvars, nvars>>

\* catch (err), then finally
CatchNetwork(n) == Settle(n, "Network error: ...", "Network error")

\* await fetch('/api/chat', ...) rejects
ChatFetchRejects(n) ==
    /\ act[n] = "awaitFetch"
    /\ CatchNetwork(n)

\* await fetch resolves with a response: resp.ok decides which body read follows
ChatFetchResolves(n) ==
    /\ act[n] = "awaitFetch"
    /\ \E ok \in BOOLEAN :
          act' = [act EXCEPT ![n] = IF ok THEN "awaitJson" ELSE "awaitText"]
    /\ UNCHANGED <<pending, disabled, value, messagesEl, apiStatus, fetches, lastCall>>
    /\ UNCHANGED <<svars, hvars, nvars>>

\* !resp.ok: await resp.text() settles
RespTextSettles(n) ==
    /\ act[n] = "awaitText"
    /\ \/ Settle(n, "Server error: ...", "Server error")
       \/ CatchNetwork(n)

\* resp.ok: await resp.json() settles: with data.error, with a reply, with null
\* (data.error throws), or rejected
RespJsonSettles(n) ==
    /\ act[n] = "awaitJson"
    /\ \/ Settle(n, "data.message", "API error")
       \/ Settle(n, "reply", "Connected")
       \/ CatchNetwork(n)

NextClient ==
    \/ TypeText
    \/ ClickSend
    \/ PressEnter
    \/ \E n \in DOMAIN act : ChatFetchRejects(n)
    \/ \E n \in DOMAIN act : ChatFetchResolves(n)
    \/ \E n \in DOMAIN act : RespTextSettles(n)
    \/ \E n \in DOMAIN act : RespJsonSettles(n)

InitClient ==
    /\ build = 1
    /\ GEMINI_KEY = sEmpty
    /\ GROQ_KEY = sEmpty
    /\ genAI = Null
    /\ HandlersInit(Slots)
    /\ HarnessIdle
    /\ ClientInit

SpecClient == InitClient /\ [][NextClient]_vars

\* =============================================================== claims
HintOf(s) == Get(req[s], "model")
HistoryOf(s) == Get(req[s], "history")
Received(s) == req[s] # NoBody

\* --------------------------------------------------------------- C1
\* C1: every request to POST /api/chat ends with exactly one reply sent and no
\* exception leaving the handler: no activation is ever in the state where an
\* exception escaped, none sends two replies, and a finished one has sent one.
C1_AlwaysOneReply ==
    \A s \in DOMAIN pc :
        /\ pc[s] # "crashed"
        /\ Len(sent[s]) <= 1
        /\ (pc[s] = "done" => Len(sent[s]) = 1)

\* --------------------------------------------------------------- C2
\* C2: sanitizeHistory applied to the array sanitizeHistory returned gives an
\* array equal to it.
C2_Idempotent ==
    nstage = "twice" => (~nout2.threw /\ nout2.value = nout.value)

\* C2 (amended): the elements of sanitizeHistory(h), each written back as a turn
\* {role, content: parts[0].text}, are cleaned to sanitizeHistory(h) itself.
C2_IdempotentOnTurns ==
    nstage = "twice" => (~nback.threw /\ nback.value = nout.value)

\* a history that lost a turn and kept two has been cleaned twice
C2_Witness ==
    /\ nstage = "twice"
    /\ Len(nout.value) >= 2
    /\ Len(nh.items) > Len(nout.value)
    /\ nout2.value = <<>>

\* --------------------------------------------------------------- C3
\* C3: the array sanitizeHistory returns is empty or begins with a user turn.
C3_LeadingUser ==
    (nstage # "input" /\ ~nout.threw) =>
        (nout.value = <<>> \/ nout.value[1].role = sUser)

\* a history that begins with a non-blank turn of another role, and whose
\* cleaned form is not empty
C3_Witness ==
    /\ nstage = "once"
    /\ ~nout.threw
    /\ nout.value # <<>>
    /\ nh.t = "array"
    /\ nh.items[1].role # sUser
    /\ nh.items[1].content = sA

\* --------------------------------------------------------------- C4
\* C4: every element the cleaner returns has a text that is a string with at
\* least one character that is not whitespace.
C4_NoBlankContent ==
    (nstage # "input" /\ ~nout.threw) =>
        \A i \in 1..Len(nout.value) :
            LET text == PartText(nout.value[i]) IN
            /\ text.t = "string"
            /\ \E k \in 1..Len(text.chars) : text.chars[k] \notin Whitespace

\* a history with a blank turn after its first user turn, cleaned to something
C4_Witness ==
    /\ nstage = "once"
    /\ ~nout.threw
    /\ nout.value # <<>>
    /\ nh.t = "array"
    /\ Len(nh.items) >= 2
    /\ nh.items[1] = Turn(sUser, sA)
    /\ nh.items[2].content \in {sBlank, sEmpty}

\* --------------------------------------------------------------- C5
\* C5: every element the cleaner returns has role user or model: user when the
\* turn it was made from had role exactly "user", model for any other role.
C5_RoleMapping ==
    (nstage # "input" /\ ~nout.threw) =>
        \A i \in 1..Len(nout.value) :
            LET source == nh.items[nout.src[i]]
                role == nout.value[i].role
            IN  /\ role \in {sUser, sModel}
                /\ (Get(source, "role") = sUser => role = sUser)
                /\ (Get(source, "role") # sUser => role = sModel)

\* a cleaned history with a user turn, a turn made from role "assistant" and a
\* turn made from role "User"
C5_Witness ==
    /\ nstage = "once"
    /\ ~nout.threw
    /\ Len(nout.value) = 3
    /\ \E i, j \in 2..3 :
          /\ nh.items[nout.src[i]].role = sAssistant
          /\ nh.items[nout.src[j]].role = sUserCap

\* --------------------------------------------------------------- C6
\* what the table of the claim selects for the characters of a lower-cased hint
TableChoice(cs) ==
    IF includes(cs, kFlash) THEN "fast"
    ELSE IF includes(cs, kPro) THEN "capable"
    ELSE IF includes(cs, kGemini) THEN "capable"
    ELSE "secondary"

\* what the handler selected: the branch it took and, once chosen, the variant
Chosen(s) ==
    IF loc[s].branch = "groq" THEN "secondary"
    ELSE IF loc[s].targetModelName = "none" THEN "primary"
    ELSE IF loc[s].targetModelName = MODEL_FLASH(build) THEN "fast"
    ELSE "capable"

Agrees(chosen, table) ==
    \/ chosen = table
    \/ (chosen = "primary" /\ table \in {"fast", "capable"})

\* C6: the provider and variant the handler selects are those of the table
\* (flash, then pro, then gemini, else the secondary provider) applied to the
\* lower-cased hint; an absent hint selects the primary provider.
C6_SelectionTable ==
    \A s \in DOMAIN pc :
        loc[s].branch # "none" =>
            /\ (HintOf(s).t = "string" /\ HintOf(s).chars # <<>>) =>
                  Agrees(Chosen(s), TableChoice(toLowerCase(HintOf(s).chars)))
            /\ HintOf(s) = Undefined => Chosen(s) # "secondary"

\* --------------------------------------------------------------- C7
\* the keyword of the table that selects for a hint
Keyword(cs) ==
    IF includes(cs, kFlash) THEN "flash"
    ELSE IF includes(cs, kPro) THEN "pro"
    ELSE IF includes(cs, kGemini) THEN "gemini"
    ELSE "none"

\* C7: two requests whose hints differ only in letter case, or contain the same
\* selecting keyword, get the same provider and the same variant.
C7_SameHintSameSelection ==
    \A s1, s2 \in DOMAIN pc :
        LET c1 == toLowerCase(HintOf(s1).chars)
            c2 == toLowerCase(HintOf(s2).chars)
        IN  (/\ loc[s1].branch # "none"
             /\ loc[s2].branch # "none"
             /\ c1 # <<>>
             /\ c2 # <<>>
             /\ \/ c1 = c2
                \/ (Keyword(c1) = Keyword(c2) /\ Keyword(c1) # "none"))
            => /\ loc[s1].branch = loc[s2].branch
               /\ loc[s1].targetModelName = loc[s2].targetModelName

\* --------------------------------------------------------------- C8
\* the provider the table selects for the hint of a received request; a hint
\* that is absent or empty selects the primary provider
SelectedProvider(s) ==
    IF ~Truthy(HintOf(s)) THEN "gemini"
    ELSE IF TableChoice(toLowerCase(HintOf(s).chars)) = "secondary" THEN "groq"
    ELSE "gemini"

SelectedCredentialAbsent(s) ==
    /\ Received(s)
    /\ HintOrDefault(HintOf(s)).t = "string"
    /\ IF SelectedProvider(s) = "gemini" THEN genAI = Null ELSE ~Truthy(GROQ_KEY)

\* C8: a request whose selected provider has no credential makes no outbound
\* call and is answered, as soon as the handler has run, with the
\* configuration-error reply.
C8_MissingCredentialReply ==
    \A s \in DOMAIN pc :
        SelectedCredentialAbsent(s) =>
            /\ calls[s] = <<>>
            /\ sent[s] = <<Reply(KeyMissingContent)>>

\* --------------------------------------------------------------- C9
\* C9: a request makes at most one outbound call, and that call goes to the
\* provider the selection table gives for its hint.
C9_AtMostOneCall ==
    \A s \in DOMAIN pc :
        /\ Len(calls[s]) <= 1
        /\ \A i \in 1..Len(calls[s]) : calls[s][i].provider = SelectedProvider(s)

\* a request whose one call failed has been answered from the catch block
C9_Witness ==
    \E s \in DOMAIN pc :
        /\ pc[s] = "done"
        /\ Len(calls[s]) = 1
        /\ sent[s] = <<Reply(CatchContent("fetch failed"))>>

\* --------------------------------------------------------------- C10
\* C10: the message list of a call to the secondary provider is the system
\* persona, then one message per turn of the request's raw history in order
\* (role user kept, any other role assistant, content as it is), then the new
\* user message.
C10_GroqMessagesFromRawHistory ==
    \A s \in DOMAIN pc :
        \A i \in 1..Len(calls[s]) :
            calls[s][i].provider = "groq" =>
                LET msgs == calls[s][i].messages
                    items == HistoryOf(s).items
                IN  /\ Len(msgs) = Len(items) + 2
                    /\ msgs[1].role = sSystem
                    /\ msgs[1].content = SYSTEM_INSTRUCTION_INDRESH
                    /\ msgs[Len(msgs)].role = sUser
                    /\ msgs[Len(msgs)].content = Get(req[s], "message")
                    /\ \A k \in 1..Len(items) :
                          /\ msgs[k + 1].content = Get(items[k], "content")
                          /\ msgs[k + 1].role =
                                IF Get(items[k], "role") = sUser THEN sUser ELSE sAssistant

\* a call to the secondary provider for a history that the cleaner shortened:
\* it begins with an assistant turn and holds a blank turn
C10_Witness ==
    \E s \in DOMAIN pc :
        /\ Len(calls[s]) = 1
        /\ calls[s][1].provider = "groq"
        /\ HistoryOf(s).items = <<Turn(sAssistant, sA), Turn(sUser, sBlank)>>
        /\ loc[s].geminiHistory = <<>>

\* --------------------------------------------------------------- C11
\* the secondary provider's parsed response has no first choice, or a first
\* choice without message content
LacksContent(data) ==
    \/ IsNullish(data)
    \/ ~Truthy(OptGet(OptGet(OptFirst(Get(data, "choices")), "message"), "content"))

AnsweredBySecondary(s) ==
    /\ pc[s] = "done"
    /\ loc[s].branch = "groq"
    /\ Len(calls[s]) = 1
    /\ loc[s].error = "none"

\* C11: a request answered from a response of the secondary provider that has
\* no first choice or no message content gets the reply content
\* "Error from API", and no exception was raised on the way.
C11_FallbackString ==
    \A s \in DOMAIN pc :
        (/\ pc[s] = "done"
         /\ loc[s].branch = "groq"
         /\ Len(calls[s]) = 1
         /\ loc[s].error \notin {"fetch failed", "Unexpected token < in JSON at position 0"}
         /\ LacksContent(loc[s].data))
        => /\ loc[s].error = "none"
           /\ Len(sent[s]) = 1
           /\ sent[s][1].content = ErrorFromApi

\* C11 (amended): the same for every parsed response other than null.
C11_FallbackStringNotNull ==
    \A s \in DOMAIN pc :
        (AnsweredBySecondary(s) /\ LacksContent(loc[s].data))
        => /\ Len(sent[s]) = 1
           /\ sent[s][1].content = ErrorFromApi

\* a request answered from a response whose choices array is empty
C11_Witness ==
    \E s \in DOMAIN pc :
        /\ AnsweredBySecondary(s)
        /\ loc[s].data = [t |-> "object", choices |-> Arr(<<>>)]
        /\ sent[s] = <<ReplyVia(ErrorFromApi, GroqVia)>>

\* --------------------------------------------------------------- C12
HasVia(reply) == "via" \in DOMAIN reply

\* the request failed: its provider's credential is missing, an error reached
\* the catch block, or the secondary provider's response lacks content
Failed(s) ==
    \/ SelectedCredentialAbsent(s)
    \/ loc[s].error # "none"
    \/ (loc[s].branch = "groq" /\ HistoryOf(s).t # "array")
    \/ (loc[s].branch = "groq" /\ loc[s].data # Undefined /\ LacksContent(loc[s].data))

\* C12: every reply has role "assistant", and the reply of a failed request
\* (missing credential, network failure, malformed provider response) has no
\* via field.
C12_FailureWithoutVia ==
    \A s \in DOMAIN pc :
        \A i \in 1..Len(sent[s]) :
            /\ sent[s][i].role = "assistant"
            /\ Failed(s) => ~HasVia(sent[s][i])

\* C12 (amended): every reply has role "assistant"; the replies for a missing
\* credential and from the catch block have no via field; a reply has a via
\* field exactly when it was built from a provider's response, which includes
\* the "Error from API" reply for a response that lacks content.
C12_ViaOnProviderReplies ==
    \A s \in DOMAIN pc :
        \A i \in 1..Len(sent[s]) :
            LET reply == sent[s][i] IN
            /\ reply.role = "assistant"
            /\ HasVia(reply) <=>
                  (/\ loc[s].error = "none"
                   /\ (loc[s].text # Undefined \/ loc[s].data # Undefined))
            /\ (reply.content = KeyMissingContent \/ loc[s].error # "none")
                  => ~HasVia(reply)
            /\ (HasVia(reply) /\ loc[s].branch = "groq" /\ LacksContent(loc[s].data))
                  => reply = ReplyVia(ErrorFromApi, GroqVia)

\* a request to the primary provider whose call failed, answered without via
C12_Witness ==
    \E s \in DOMAIN pc :
        /\ pc[s] = "done"
        /\ loc[s].branch = "gemini"
        /\ sent[s] = <<Reply(CatchContent("[GoogleGenerativeAI Error]: fetch failed"))>>

\* --------------------------------------------------------------- C13
\* a turn as the request's data model has it: an object whose content is a
\* string or is absent
IsTurn(e) == e.t = "object" /\ Get(e, "content").t \in {"string", "undefined"}

NonUserOrBlank(e) ==
    LET content == Get(e, "content") IN
    \/ Get(e, "role") # sUser
    \/ ~Truthy(content)
    \/ Trim(content.chars) = <<>>

\* empty, no sequence at all, or turns that are all non-user or blank
Degenerate(h) ==
    \/ h.t # "array"
    \/ \A i \in 1..Len(h.items) : IsTurn(h.items[i]) /\ NonUserOrBlank(h.items[i])

\* C13: sanitizeHistory does not throw on a degenerate history (empty, not an
\* array, or made only of turns that are non-user or blank) and returns the
\* empty array for it.
C13_DegenerateToEmpty ==
    (nstage # "input" /\ Degenerate(nh)) => (~nout.threw /\ nout.value = <<>>)

\* an assistant turn with text followed by a blank user turn, cleaned to []
C13_Witness ==
    /\ nstage = "once"
    /\ nh = Arr(<<Turn(sAssistant, sA), Turn(sUser, sBlank)>>)
    /\ ~nout.threw
    /\ nout.value = <<>>

\* --------------------------------------------------------------- C14
\* everything one activation holds
Activation(s) == <<pc[s], req[s], loc[s], calls[s], sent[s]>>

\* what the provider answered to the activation's request
AnswerOf(s) == <<loc[s].text, loc[s].data, loc[s].error>>

Finished(s) == Received(s) /\ pc[s] \in {"done", "crashed"}

\* two finished requests with equal bodies and equal provider answers have
\* equal replies, made the same calls and ended the same way
SameRequestSameReply ==
    \A s, u \in DOMAIN pc :
        (Finished(s) /\ Finished(u) /\ req[s] = req[u] /\ AnswerOf(s) = AnswerOf(u))
            => (sent[s] = sent[u] /\ calls[s] = calls[u] /\ pc[s] = pc[u])

\* a step of one activation leaves every other activation as it was
OneActivationPerStep ==
    \A s, u \in DOMAIN pc :
        (s # u /\ Activation(s)' # Activation(s)) => Activation(u)' = Activation(u)

RefMapped(items) ==
    [i \in 1..Len(items) |->
        [t |-> "object",
         role |-> IF Get(items[i], "role") = sUser THEN sUser ELSE sModel,
         parts |-> Arr(<<[t |-> "object", text |-> Get(items[i], "content")]>>)]]

\* (2) without the blank turns
RefNonBlank(m) ==
    LET text == PartText(m) IN
    /\ text.t = "string"
    /\ \E k \in 1..Len(text.chars) : text.chars[k] \notin Whitespace

RefFiltered(items) == SelectSeq(RefMapped(items), RefNonBlank)

\* (3) the longest suffix that starts with a user turn, [] when there is none
RefLongestUserSuffix(f) ==
    LET starts == {k \in 1..Len(f) : f[k].role = sUser} IN
    IF starts = {} THEN <<>>
    ELSE LET first == CHOOSE k \in starts : \A j \in starts : k <= j
         IN  SubSeq(f, first, Len(f))

\* C15: for an array of turns, sanitizeHistory returns the longest suffix,
\* starting with a user turn, of the role-mapped turns without the blank ones,
\* in their order and with their content as it was.
C15_MapFilterThenSuffix ==
    (nstage # "input" /\ ~nout.threw /\ nh.t = "array") =>
        nout.value = RefLongestUserSuffix(RefFiltered(nh.items))

\* a blank user turn, then an assistant turn, then a user turn with padded
\* text: only the last is returned, its text untouched
C15_Witness ==
    /\ nstage = "once"
    /\ nh = Arr(<<Turn(sUser, sBlank), Turn(sAssistant, sA), Turn(sUser, sPaddedA)>>)
    /\ ~nout.threw
    /\ Len(nout.value) = 1
    /\ nout.value[1].role = sUser
    /\ PartText(nout.value[1]) = sPaddedA

\* --------------------------------------------------------------- C16
\* a received request without a history field whose hint lines 73-75 accept
OmitsHistory(s) ==
    /\ Received(s)
    /\ HistoryOf(s) = Undefined
    /\ HintOrDefault(HintOf(s)).t = "string"

\* the message list for an empty history: the persona, then the new message
PersonaThenMessage(s) ==
    <<[t |-> "object", role |-> sSystem, content |-> SYSTEM_INSTRUCTION_INDRESH],
      [t |-> "object", role |-> sUser, content |-> Get(req[s], "message")]>>

\* C16: a request that omits history is handled as one with an empty history:
\* on the primary path the call carries an empty history; on the secondary
\* path, with GROQ_KEY set, there is one call with the messages
\* [system persona, new user message], and the reply is the provider's answer.
C16_OmittedHistoryAsEmpty ==
    \A s \in DOMAIN pc :
        OmitsHistory(s) =>
            /\ (SelectedProvider(s) = "gemini" /\ genAI # Null) =>
                  /\ Len(calls[s]) = 1
                  /\ calls[s][1].provider = "gemini"
                  /\ calls[s][1].history = <<>>
            /\ (SelectedProvider(s) = "groq" /\ Truthy(GROQ_KEY)) =>
                  /\ calls[s] = <<GroqCall(GROQ_KEY, PersonaThenMessage(s))>>
                  /\ (pc[s] = "done" /\ ~LacksContent(loc[s].data)) =>
                        sent[s] = <<ReplyVia(Get(Get(loc[s].data.choices.items[1],
                                                     "message"), "content"), GroqVia)>>

\* --------------------------------------------------------------- C17
UserMessages == SelectSeq(messagesEl, LAMBDA m : m.isUser)

\* at most one request is outstanding; pending is true exactly while one is,
\* and the send button is disabled exactly while pending is true
PendingIffOutstanding ==
    /\ Cardinality(Outstanding) <= 1
    /\ pending <=> Outstanding # {}
    /\ disabled <=> pending

\* a step taken while pending is true posts nothing and adds no user message;
\* a step in which the outstanding request settles ends with pending false and
\* the send button enabled
StepWhilePending ==
    /\ pending => (fetches' = fetches /\ UserMessages' = UserMessages)
    /\ (Outstanding # {} /\ Outstanding' = {}) => (~pending' /\ ~disabled')

\* C17: in the browser client at most one /api/chat request is in flight; a
\* sendMessage call made while pending is true sends nothing and adds no
\* message; pending is true exactly while a request is outstanding; when the
\* request settles pending is false and the send button is enabled again.
C17_OneRequestInFlight ==
    /\ []PendingIffOutstanding
    /\ [][StepWhilePending]_vars

\* Enter was pressed while the second request was outstanding: nothing posted
C17_Witness ==
    /\ lastCall = "pending"
    /\ pending
    /\ Len(fetches) = 2
    /\ Len(UserMessages) = 2
    /\ Cardinality(Outstanding) = 1
    /\ value = sA

====
